---- MODULE Spec2Model ----
(***************************************************************************)
(* Model of the directory / file helpers of safe_nfs                       *)
(* (src/src/helper/directory_helper.rs, src/src/helper/file_helper.rs,     *)
(* src/src/errors.rs) over an abstract storage substrate.                  *)
(*                                                                         *)
(* A helper call is translated as an operator over a "world" record w      *)
(* (the substrate, the session held by the client, the client mutex, the   *)
(* clock) that returns a result record [st, val, w]: st is "Ok", "Err",    *)
(* "Blocked" (the call never returns: the thread waits for a mutex it      *)
(* holds itself) or "Panicked".  try!(e) is the early return on a result   *)
(* whose st is not "Ok".                                                   *)
(***************************************************************************)
EXTENDS Integers, Sequences, FiniteSets, TLC

VARIABLES
    sds,      \* substrate: structured records by network name
    blobs,    \* substrate: immutable content-addressed blobs
    session,  \* the client's well-known-root slots
    mutex,    \* the client mutex: "free", its holder, or "poisoned"
    nextId,   \* source of fresh listing identities
    clock,    \* the time source read by now_utc()
    calls,    \* helper calls made and substrate failures met so far
    mem,      \* the caller's in-memory listings, by listing identity
    copies,   \* the copies of File values the caller has kept
    pc,       \* the calling thread: "ready", "blocked" or "panicked"
    last,     \* the last helper call: its arguments and its result
    th        \* the threads that share the client, where there are several

vars == <<sds, blobs, session, mutex, nextId, clock, calls, mem, copies, pc, last, th>>

----------------------------------------------------------------------------
(* Bounds *)

\* The helper calls of one behaviour, a call that meets a substrate failure
\* counting twice.
MaxCalls == 3

----------------------------------------------------------------------------
(* Program constants *)

VERSIONED_DIRECTORY_LISTING_TAG == "VERSIONED_TAG"
UNVERSIONED_DIRECTORY_LISTING_TAG == "UNVERSIONED_TAG"
ROOT_DIRECTORY_NAME == "USER-ROOT"
CONFIGURATION_DIRECTORY_NAME == "CONFIGURATION-ROOT"

Tags == {VERSIONED_DIRECTORY_LISTING_TAG, UNVERSIONED_DIRECTORY_LISTING_TAG}
AccessLevel == {"Private", "Public"}
Names == {"a", "b"}

\* Option::None of the various types.
NoKey == <<0, "none">>
NoKeys == <<"none", <<"nonce", 0>>>>
NoListing == [none |-> "listing"]
NoId == 0

----------------------------------------------------------------------------
(* Results *)

Ret(st, val, w) == [st |-> st, val |-> val, w |-> w]
Ok(val, w) == Ret("Ok", val, w)

\* impl From<ClientError> for NfsError
FromClientError(w) == Ret("Err", "ClientError", w)

\* Err(NfsError::e) of the helper itself.
NfsErr(e, w) == Ret("Err", e, w)

\* Vec::remove(index): the later elements move up.
RemoveAt(seq, i) == SubSeq(seq, 1, i - 1) \o SubSeq(seq, i + 1, Len(seq))

----------------------------------------------------------------------------
(* DirectoryListing, DirectoryInfo (directory_listing.rs)                  *)

get_key(directory) == directory.info.key
get_info(directory) == directory.info

\* DirectoryListing::new: a fresh network name, created = modified = now.
NewDirectoryListing(id, now, name, tag_type, user_metadata, versioned, access_level, parent_dir_key) ==
    [info |-> [key            |-> <<id, tag_type>>,
               name           |-> name,
               user_metadata  |-> user_metadata,
               versioned      |-> versioned,
               access_level   |-> access_level,
               parent_dir_key |-> parent_dir_key,
               created_time   |-> now,
               modified_time  |-> now],
     sub_directories |-> <<>>,
     files           |-> <<>>]

\* iter().position(..) over the outcomes of the predicate: the first index
\* that satisfies it, 0 for None.
Position(hits) ==
    IF \E i \in DOMAIN hits : hits[i]
    THEN CHOOSE i \in DOMAIN hits : hits[i] /\ \A j \in 1 .. (i - 1) : ~hits[j]
    ELSE 0

get_sub_directory_index(directory, name) ==
    Position([k \in DOMAIN directory.sub_directories |->
                directory.sub_directories[k].name = name])

find_sub_directory(directory, name) ==
    IF get_sub_directory_index(directory, name) = 0 THEN NoListing
    ELSE directory.sub_directories[get_sub_directory_index(directory, name)]

\* upsert_sub_directory: replace the entry with the same network name if
\* there is one, else append; the listing's modified time becomes now.
upsert_sub_directory(directory, directory_info, now) ==
    LET i == Position([k \in DOMAIN directory.sub_directories |->
                        directory.sub_directories[k].key[1] = directory_info.key[1]])
    IN  [directory EXCEPT
            !.sub_directories = IF i = 0 THEN Append(@, directory_info)
                                ELSE [@ EXCEPT ![i] = directory_info],
            !.info.modified_time = now]

\* File::new(FileMetadata::new(name, user_metadata), datamap): size 0,
\* created = modified = now.
NewFile(name, user_metadata, datamap, now) ==
    [metadata |-> [name          |-> name,
                   size          |-> 0,
                   user_metadata |-> user_metadata,
                   created_time  |-> now,
                   modified_time |-> now],
     datamap |-> datamap]

get_name(file) == file.metadata.name

get_file_index(directory, name) ==
    Position([k \in DOMAIN directory.files |-> get_name(directory.files[k]) = name])

\* find_file: the first file of that name, Found FALSE for None.
find_file(directory, name) ==
    IF get_file_index(directory, name) = 0 THEN [Found |-> FALSE]
    ELSE [Found |-> TRUE, file |-> directory.files[get_file_index(directory, name)]]

\* The upserts refuse an entry that breaks an invariant of the model: an
\* empty name is NameIsEmpty.
upsert_refusal(w, name) ==
    IF name = "" THEN NfsErr("NameIsEmpty", w) ELSE Ok(TRUE, w)

\* upsert_file: replace the file of the same name if there is one, else
\* append; the listing's modified time becomes now.
upsert_file(directory, file, now) ==
    LET i == get_file_index(directory, get_name(file))
    IN  [directory EXCEPT
            !.files = IF i = 0 THEN Append(@, file) ELSE [@ EXCEPT ![i] = file],
            !.info.modified_time = now]

\* FileMetadata::set_user_metadata
set_user_metadata(file, user_metadata) ==
    [file EXCEPT !.metadata.user_metadata = user_metadata]

\* DataMap::None for no bytes, else the bytes held inline.
NoDataMap == [kind |-> "None"]
DataMapOf(bytes) ==
    IF bytes = <<>> THEN NoDataMap ELSE [kind |-> "Content", bytes |-> bytes]
ContentOf(datamap) ==
    IF datamap.kind = "None" THEN <<>> ELSE datamap.bytes

\* write(bytes, 0) over a pre-image.
Patch(pre_image, bytes) ==
    bytes \o SubSeq(pre_image, Len(bytes) + 1, Len(pre_image))

Mode == {"Overwrite", "Modify"}

\* Writer::new(client, mode, directory_listing, file)
NewWriter(mode, directory_listing, file) ==
    [writer |-> TRUE, mode |-> mode, directory_listing |-> directory_listing,
     file |-> file]

\* Reader::new(client, file)
NewReader(file) == [reader |-> TRUE, file |-> file]

\* generate_nonce: derived from the listing's network name alone.
generate_nonce(id) == <<"nonce", id>>

\* DirectoryListing::encrypt: sealed with the session keys and the nonce.
encrypt(directory) ==
    [sealed |-> TRUE, nonce |-> generate_nonce(get_key(directory)[1]),
     body |-> directory]

\* maidsafe_client::utility::serialise
serialise(directory) ==
    [sealed |-> FALSE, nonce |-> <<"nonce", 0>>, body |-> directory]

\* DirectoryListing::decrypt(client, id, access_level, data): Private opens
\* the seal with the nonce of id, Public deserialises the bytes as they are.
decrypt(w, id, access_level, data) ==
    IF access_level = "Private"
    THEN IF data.sealed /\ data.nonce = generate_nonce(id)
         THEN Ok(data.body, w) ELSE FromClientError(w)
    ELSE IF ~data.sealed THEN Ok(data.body, w) ELSE FromClientError(w)

----------------------------------------------------------------------------
(* The client: its mutex, the substrate calls, structured_data_operations  *)

compute_name(type_tag, id) == <<type_tag, id>>

\* A function with one more point (a map insertion).
Put(f, k, v) == [x \in DOMAIN f \cup {k} |-> IF x = k THEN v ELSE f[x]]

\* ImmutableData::name(): the hash of the content.
ImmutableName(data) == [hash |-> data]

\* try!(r): any result but Ok returns from the function, Ok goes on.
Try(r, Then(_)) == IF r.st # "Ok" THEN r ELSE Then(r)

\* self.client.lock().unwrap(): std::sync::Mutex is not reentrant.  A thread
\* that locks it while it holds a guard itself never returns (it deadlocks
\* or panics); locking a poisoned mutex panics in unwrap().
Lock(w) ==
    IF w.mutex = "poisoned" THEN Ret("Panicked", "PoisonError", w)
    ELSE IF w.mutex = w.self
         THEN IF w.relock = "panic" THEN Ret("Panicked", "relock", w)
              ELSE Ret("Blocked", "relock", w)
    ELSE Ok(TRUE, w)

Counted(w, call) == [w EXCEPT !.n = @ + 1, !.log = Append(@, call)]

\* One substrate call under the mutex, taken and released around it.  The
\* substrate may fail the call (w.failAt is the call that fails).
Substrate(w, call) ==
    Try(Lock(w), LAMBDA guard :
        IF w.n + 1 = w.failAt
        THEN FromClientError(Counted(w, call))
        ELSE Ok(TRUE, Counted(w, call)))

\* client.put(name, Data::ImmutableData(..)): idempotent, content-addressed.
put_immutable(w, name, data) ==
    Try(Substrate(w, "put"), LAMBDA s :
        Ok(name, [s.w EXCEPT !.blobs = Put(@, name, data)]))

\* client.put(name, Data::StructuredData(..))
put_structured(w, name, structured_data) ==
    Try(Substrate(w, "put"), LAMBDA s :
        Ok(TRUE, [s.w EXCEPT !.sds = Put(@, name, structured_data)]))

\* client.post(name, Data::StructuredData(..)): updates an existing record.
post(w, name, structured_data) ==
    Try(Substrate(w, "post"), LAMBDA s :
        IF name \notin DOMAIN s.w.sds THEN FromClientError(s.w)
        ELSE Ok(TRUE, [s.w EXCEPT !.sds = Put(@, name, structured_data)]))

StructuredData(type_tag, id, version, payload) ==
    [tag |-> type_tag, id |-> id, version |-> version, payload |-> payload]

SdName(structured_data) == compute_name(structured_data.tag, structured_data.id)

\* structured_data_operations::versioned::create: the payload is the version
\* list, holding the one version given.
versioned_create(w, version, type_tag, id, counter) ==
    Try(Lock(w), LAMBDA guard :
        Ok(StructuredData(type_tag, id, counter,
                          [kind |-> "versions", chain |-> <<version>>]), w))

\* structured_data_operations::versioned::get_all_versions
get_all_versions(w, structured_data) ==
    Try(Lock(w), LAMBDA guard :
        IF structured_data.payload.kind = "versions"
        THEN Ok(structured_data.payload.chain, w)
        ELSE FromClientError(w))

\* structured_data_operations::versioned::append_version: the chain with the
\* version appended, under the record's counter plus one.
append_version(w, structured_data, version) ==
    Try(Lock(w), LAMBDA guard :
        IF structured_data.payload.kind # "versions" THEN FromClientError(w)
        ELSE Ok(StructuredData(structured_data.tag, structured_data.id,
                               structured_data.version + 1,
                               [kind |-> "versions",
                                chain |-> Append(structured_data.payload.chain,
                                                 version)]),
                w))

\* structured_data_operations::unversioned::create: the payload is the data,
\* encrypted once more when encryption keys are given.
unversioned_create(w, type_tag, id, counter, data, encryption_keys) ==
    Try(Lock(w), LAMBDA guard :
        Ok(StructuredData(type_tag, id, counter,
                          [kind |-> "data", keys |-> encryption_keys,
                           inner |-> data]), w))

\* What the bytes of a payload read as when they are not what the reader
\* expects: nothing that decrypts or deserialises.
Garbage == [sealed |-> TRUE, nonce |-> <<"nonce", 0>>, body |-> NoListing]

\* structured_data_operations::unversioned::get_data
get_data(w, structured_data, encryption_keys) ==
    Try(Lock(w), LAMBDA guard :
        IF structured_data.payload.kind # "data" THEN
             IF encryption_keys = NoKeys THEN Ok(Garbage, w) ELSE FromClientError(w)
        ELSE IF structured_data.payload.keys = encryption_keys
             THEN Ok(structured_data.payload.inner, w)
        ELSE IF encryption_keys = NoKeys THEN Ok(Garbage, w)
        ELSE FromClientError(w))

\* client.get_secret_signing_key() and the other key accessors.
get_keys(w) == Lock(w)

\* ::time::now_utc(): time passes between two readings of the clock.
now_utc(w) == w.clock + 1
Tick(w) == [w EXCEPT !.clock = @ + 1]

----------------------------------------------------------------------------
(* DirectoryHelper (directory_helper.rs)                                   *)

\* Variant: a failed get is asked once more.
get_structured_data_Retry(w, id, type_tag) ==
    LET first == Substrate(w, "get")
    IN  Try(IF first.st = "Err" THEN Substrate(first.w, "get") ELSE first,
            LAMBDA s :
            IF compute_name(type_tag, id) \notin DOMAIN s.w.sds
            THEN FromClientError(s.w)
            ELSE Ok(s.w.sds[compute_name(type_tag, id)], s.w))

get_structured_data(w, id, type_tag) ==
    Try(Substrate(w, "get"), LAMBDA s :
        IF compute_name(type_tag, id) \notin DOMAIN s.w.sds THEN FromClientError(s.w)
        ELSE Ok(s.w.sds[compute_name(type_tag, id)], s.w))

get_immutable_data(w, id) ==
    Try(Substrate(w, "get"), LAMBDA s :
        IF id \notin DOMAIN s.w.blobs THEN FromClientError(s.w)
        ELSE Ok(s.w.blobs[id], s.w))

\* Variant: the snapshot is named after the listing it belongs to, not after
\* its content.
save_as_immutable_data_NamedByListing(w, data) ==
    put_immutable(w, ImmutableName(data.nonce), data)

\* Variant: the name of the snapshot is returned, the snapshot is not stored.
save_as_immutable_data_Unstored(w, data) ==
    Try(Substrate(w, "put"), LAMBDA s : Ok(ImmutableName(data), s.w))

save_as_immutable_data(w, data) ==
    put_immutable(w, ImmutableName(data), data)

get_by_version(w, directory_key, access_level, version) ==
    Try(get_immutable_data(w, version), LAMBDA immutable_data :
        decrypt(immutable_data.w, directory_key[1], access_level, immutable_data.val))

EncryptionKeys(access_level, id) ==
    IF access_level = "Private" THEN <<"keys", generate_nonce(id)>> ELSE NoKeys

\* Variant: a versioned listing is read from the first snapshot of its chain.
get_FirstVersion(w, directory_key, versioned, access_level) ==
    Try(get_structured_data(w, directory_key[1], directory_key[2]),
        LAMBDA structured_data :
        IF versioned THEN
            Try(get_all_versions(structured_data.w, structured_data.val),
                LAMBDA versions :
                IF versions.val = <<>> THEN Ret("Panicked", "unwrap", versions.w)
                ELSE get_by_version(versions.w, directory_key, access_level,
                                    versions.val[1]))
        ELSE
            Try(get_keys(structured_data.w), LAMBDA k :
            Try(get_data(k.w, structured_data.val,
                         EncryptionKeys(access_level, directory_key[1])),
                LAMBDA data :
                decrypt(data.w, directory_key[1], access_level, data.val))))

get(w, directory_key, versioned, access_level) ==
    Try(get_structured_data(w, directory_key[1], directory_key[2]),
        LAMBDA structured_data :
        IF versioned THEN
            Try(get_all_versions(structured_data.w, structured_data.val),
                LAMBDA versions :
                IF versions.val = <<>> THEN Ret("Panicked", "unwrap", versions.w)
                ELSE get_by_version(versions.w, directory_key, access_level,
                                    versions.val[Len(versions.val)]))
        ELSE
            Try(get_keys(structured_data.w), LAMBDA k :
            Try(get_data(k.w, structured_data.val,
                         EncryptionKeys(access_level, directory_key[1])),
                LAMBDA data :
                decrypt(data.w, directory_key[1], access_level, data.val))))

\* Variant: a listing without a record under the versioned tag has an empty
\* list of versions.
get_versions_EmptyWhenMissing(w, directory_key) ==
    Try(Substrate(w, "get"), LAMBDA s :
        IF compute_name(VERSIONED_DIRECTORY_LISTING_TAG, directory_key[1])
               \notin DOMAIN s.w.sds
        THEN Ok(<<>>, s.w)
        ELSE get_all_versions(s.w, s.w.sds[compute_name(VERSIONED_DIRECTORY_LISTING_TAG,
                                                        directory_key[1])]))

get_versions(w, directory_key) ==
    Try(get_structured_data(w, directory_key[1], VERSIONED_DIRECTORY_LISTING_TAG),
        LAMBDA structured_data :
        get_all_versions(structured_data.w, structured_data.val))

EncryptedData(directory) ==
    IF directory.info.access_level = "Private"
    THEN encrypt(directory) ELSE serialise(directory)

save_directory_listing(w, directory) ==
    Try(get_keys(w), LAMBDA k :
        IF directory.info.versioned THEN
            Try(save_as_immutable_data(k.w, EncryptedData(directory)),
                LAMBDA version :
                versioned_create(version.w, version.val,
                                 VERSIONED_DIRECTORY_LISTING_TAG,
                                 get_key(directory)[1], 0))
        ELSE unversioned_create(k.w, UNVERSIONED_DIRECTORY_LISTING_TAG,
                                get_key(directory)[1], 0, EncryptedData(directory),
                                EncryptionKeys(directory.info.access_level,
                                               get_key(directory)[1])))

\* Variant: an update of a versioned listing starts a new chain.
updated_structured_data_NewChain(w, directory, structured_data) ==
    IF directory.info.versioned THEN
        Try(save_as_immutable_data(w, EncryptedData(directory)), LAMBDA version :
            versioned_create(version.w, version.val,
                             VERSIONED_DIRECTORY_LISTING_TAG,
                             get_key(directory)[1], structured_data.version + 1))
    ELSE unversioned_create(w, UNVERSIONED_DIRECTORY_LISTING_TAG,
                            get_key(directory)[1], structured_data.version + 1,
                            EncryptedData(directory),
                            EncryptionKeys(directory.info.access_level,
                                           get_key(directory)[1]))

\* Variant: an unversioned listing is posted under the fetched counter.
updated_structured_data_SameCounter(w, directory, structured_data) ==
    IF directory.info.versioned THEN
        Try(save_as_immutable_data(w, EncryptedData(directory)), LAMBDA version :
            append_version(version.w, structured_data, version.val))
    ELSE unversioned_create(w, UNVERSIONED_DIRECTORY_LISTING_TAG,
                            get_key(directory)[1], structured_data.version,
                            EncryptedData(directory),
                            EncryptionKeys(directory.info.access_level,
                                           get_key(directory)[1]))

\* The record that update_directory_listing posts: for a versioned listing
\* the fetched record with the new snapshot appended to its chain, for an
\* unversioned one a record of the new payload under the fetched counter
\* plus one.
updated_structured_data(w, directory, structured_data) ==
    IF directory.info.versioned THEN
        Try(save_as_immutable_data(w, EncryptedData(directory)), LAMBDA version :
            append_version(version.w, structured_data, version.val))
    ELSE unversioned_create(w, UNVERSIONED_DIRECTORY_LISTING_TAG,
                            get_key(directory)[1], structured_data.version + 1,
                            EncryptedData(directory),
                            EncryptionKeys(directory.info.access_level,
                                           get_key(directory)[1]))

\* update_directory_listing up to its post: the record is fetched and the
\* record to post is made of it.
update_directory_listing_record(w, directory) ==
    Try(get_structured_data(w, get_key(directory)[1], get_key(directory)[2]),
        LAMBDA structured_data :
    Try(get_keys(structured_data.w), LAMBDA k :
        updated_structured_data(k.w, directory, structured_data.val)))

\* update_directory_listing from its post on: the record is posted and the
\* listing fetched again.
update_directory_listing_post(w, directory, updated) ==
    Try(post(w, SdName(updated), updated),
        LAMBDA posted :
        get(posted.w, get_key(directory), directory.info.versioned,
            directory.info.access_level))

update_directory_listing(w, directory) ==
    Try(update_directory_listing_record(w, directory), LAMBDA updated :
        update_directory_listing_post(updated.w, directory, updated.val))

update(w, directory) == update_directory_listing(w, directory)

\* Ok(None) is Ok(NoListing).  The parent is fetched with the versioned flag
\* and the access level of `directory` itself.
update_directory_listing_and_parent(w, directory) ==
    Try(update_directory_listing(w, directory), LAMBDA updated :
        IF directory.info.parent_dir_key # NoKey THEN
            Try(get(updated.w, directory.info.parent_dir_key,
                    directory.info.versioned, directory.info.access_level),
                LAMBDA parent_directory :
            Try(upsert_refusal(parent_directory.w, directory.info.name),
                LAMBDA upserted :
                update_directory_listing(
                    Tick(upserted.w),
                    upsert_sub_directory(parent_directory.val, get_info(directory),
                                         now_utc(upserted.w)))))
        ELSE Ok(NoListing, updated.w))

\* Variant: the parent is left as the caller passed it.
create_WithoutParentUpdate(w, directory_name, tag_type, user_metadata, versioned, access_level, parent_directory) ==
    LET directory ==
            NewDirectoryListing(w.nextId, now_utc(w), directory_name, tag_type,
                                user_metadata, versioned, access_level,
                                IF parent_directory = NoListing THEN NoKey
                                ELSE get_key(parent_directory))
    IN  Try(save_directory_listing(
                Tick([w EXCEPT !.nextId = @ + 1,
                               !.parent_directory = parent_directory]),
                directory),
            LAMBDA structured_data :
        Try(put_structured(structured_data.w, SdName(structured_data.val),
                           structured_data.val),
            LAMBDA stored : Ok(directory, stored.w)))

\* w.parent_directory is the caller's listing behind the &mut, as the call
\* leaves it.
create(w, directory_name, tag_type, user_metadata, versioned, access_level, parent_directory) ==
    LET directory ==
            NewDirectoryListing(w.nextId, now_utc(w), directory_name, tag_type,
                                user_metadata, versioned, access_level,
                                IF parent_directory = NoListing THEN NoKey
                                ELSE get_key(parent_directory))
    IN  Try(save_directory_listing(
                Tick([w EXCEPT !.nextId = @ + 1,
                               !.parent_directory = parent_directory]),
                directory),
            LAMBDA structured_data :
        Try(put_structured(structured_data.w, SdName(structured_data.val),
                           structured_data.val),
            LAMBDA stored :
            IF parent_directory # NoListing THEN
                LET upserted == upsert_sub_directory(parent_directory,
                                                     get_info(directory),
                                                     now_utc(stored.w))
                IN  Try(upsert_refusal(stored.w, directory_name), LAMBDA accepted :
                    Try(update_directory_listing_and_parent(
                            Tick([accepted.w EXCEPT !.parent_directory = upserted]),
                            upserted),
                        LAMBDA cascade : Ok(directory, cascade.w)))
            ELSE Ok(directory, stored.w)))

\* Variant: the record of the deleted sub-directory is taken out of the
\* store with its entry.
delete_WithItsRecord(w, parent_directory, directory_to_delete) ==
    IF get_sub_directory_index(parent_directory, directory_to_delete) = 0
    THEN NfsErr("DirectoryNotFound", [w EXCEPT !.parent_directory = parent_directory])
    ELSE LET pos == get_sub_directory_index(parent_directory, directory_to_delete)
             gone == parent_directory.sub_directories[pos].key
             removed == [parent_directory EXCEPT !.sub_directories = RemoveAt(@, pos)]
         IN  Try(update_directory_listing_and_parent(
                     [w EXCEPT !.parent_directory = removed], removed),
                 LAMBDA cascade :
                 Ok(TRUE, [cascade.w EXCEPT !.sds =
                              [k \in DOMAIN @ \ {compute_name(gone[2], gone[1])} |-> @[k]]]))

\* w.parent_directory is the caller's listing behind the &mut, as the call
\* leaves it.
delete(w, parent_directory, directory_to_delete) ==
    IF get_sub_directory_index(parent_directory, directory_to_delete) = 0
    THEN NfsErr("DirectoryNotFound", [w EXCEPT !.parent_directory = parent_directory])
    ELSE LET pos == get_sub_directory_index(parent_directory, directory_to_delete)
             removed == [parent_directory EXCEPT !.sub_directories = RemoveAt(@, pos)]
         IN  Try(update_directory_listing_and_parent(
                     [w EXCEPT !.parent_directory = removed], removed),
                 LAMBDA cascade : Ok(TRUE, cascade.w))

\* Variant: the guard of the scrutinee is dropped before the arms run.
HoldGuard_Released(w) == w

\* The MutexGuard made in the scrutinee of a match lives to the end of the
\* match: the arms run with the client mutex held by the calling thread.
HoldGuard(w) == [w EXCEPT !.mutex = w.self]

\* The end of the match drops the guard; a thread that panics while it
\* holds the guard poisons the mutex; a blocked thread keeps it for ever.
DropGuard(r) ==
    [r EXCEPT !.w.mutex = IF r.st = "Blocked" THEN @
                          ELSE IF r.st = "Panicked" THEN "poisoned"
                          ELSE "free"]

\* client.set_user_root_directory_id(id), set_configuration_root_directory_id
set_root_directory_id(w, slot, id) ==
    Try(Substrate(w, "set_root"), LAMBDA s :
        Ok(TRUE, [s.w EXCEPT !.session[slot] = id]))

\* The scrutinee of the match: the root id of the slot, read from the client
\* under its mutex; the guard outlives the read.
get_root_directory_id(w, slot) ==
    Try(Lock(w), LAMBDA guard : Ok(w.session[slot], HoldGuard(w)))

\* The arms of the match of get_user_root_directory_listing and the end of
\* the match.
user_root_arm(w, id) ==
    DropGuard(
        IF id # NoId THEN
            get(w, <<id, UNVERSIONED_DIRECTORY_LISTING_TAG>>, FALSE, "Private")
        ELSE
            Try(create(w, ROOT_DIRECTORY_NAME,
                       UNVERSIONED_DIRECTORY_LISTING_TAG, <<>>, FALSE, "Private",
                       NoListing),
                LAMBDA created_directory :
            Try(set_root_directory_id(created_directory.w, "user_root",
                                      get_key(created_directory.val)[1]),
                LAMBDA set : Ok(created_directory.val, set.w))))

get_user_root_directory_listing(w) ==
    Try(get_root_directory_id(w, "user_root"), LAMBDA id :
        user_root_arm(id.w, id.val))

\* The arms of the first match of get_configuration_directory_listing, the
\* end of that match, and the look-up or creation of the sub-directory.
configuration_root_arm(w, id, directory_name) ==
    Try(DropGuard(
            IF id # NoId THEN
                get(w, <<id, UNVERSIONED_DIRECTORY_LISTING_TAG>>, FALSE, "Private")
            ELSE
                Try(create(w, CONFIGURATION_DIRECTORY_NAME,
                           UNVERSIONED_DIRECTORY_LISTING_TAG, <<>>, FALSE, "Private",
                           NoListing),
                    LAMBDA created_directory :
                Try(set_root_directory_id(created_directory.w, "config_root",
                                          get_key(created_directory.val)[1]),
                    LAMBDA set : Ok(created_directory.val, set.w)))),
        LAMBDA config_directory_listing :
        IF get_sub_directory_index(config_directory_listing.val, directory_name) # 0
        THEN get(config_directory_listing.w,
                 config_directory_listing.val.sub_directories[
                     get_sub_directory_index(config_directory_listing.val,
                                             directory_name)].key,
                 FALSE, "Private")
        ELSE create(config_directory_listing.w, directory_name,
                    UNVERSIONED_DIRECTORY_LISTING_TAG, <<>>, FALSE, "Private",
                    config_directory_listing.val))

get_configuration_directory_listing(w, directory_name) ==
    Try(get_root_directory_id(w, "config_root"), LAMBDA id :
        configuration_root_arm(id.w, id.val, directory_name))

----------------------------------------------------------------------------
(* Writer (writer.rs)                                                      *)

\* write(written, 0) and close(): the chunker's data map of the bytes,
\* the file's size and modified time, the upsert of the file into the
\* writer's listing, and the update of that listing.
\* Variant: close hands the listing back without persisting it.
close_WithoutPersisting(w, writer, written) ==
    LET bytes == Patch(IF writer.mode = "Overwrite" THEN <<>>
                       ELSE ContentOf(writer.file.datamap), written)
        file == [writer.file EXCEPT !.datamap = DataMapOf(bytes),
                                    !.metadata.size = Len(bytes),
                                    !.metadata.modified_time = now_utc(w)]
    IN  Try(upsert_refusal(Tick(w), get_name(file)), LAMBDA accepted :
            Ok(upsert_file(writer.directory_listing, file, now_utc(accepted.w)),
               Tick(accepted.w)))

close(w, writer, written) ==
    LET bytes == Patch(IF writer.mode = "Overwrite" THEN <<>>
                       ELSE ContentOf(writer.file.datamap), written)
        file == [writer.file EXCEPT !.datamap = DataMapOf(bytes),
                                    !.metadata.size = Len(bytes),
                                    !.metadata.modified_time = now_utc(w)]
    IN  Try(upsert_refusal(Tick(w), get_name(file)), LAMBDA accepted :
            update(Tick(accepted.w),
                   upsert_file(writer.directory_listing, file,
                               now_utc(accepted.w))))

\* Reader::read(offset, length): no bytes but the empty range for
\* DataMap::None, a range within the file's size of the inline content.
read(w, reader, offset, length) ==
    IF reader.file.datamap.kind = "None"
    THEN IF offset = 0 /\ length = 0 THEN Ok(<<>>, w)
         ELSE NfsErr("InvalidRangeSpecified", w)
    ELSE IF offset + length > reader.file.metadata.size
         THEN NfsErr("InvalidRangeSpecified", w)
         ELSE Ok(SubSeq(ContentOf(reader.file.datamap), offset + 1, offset + length), w)

----------------------------------------------------------------------------
(* FileHelper (file_helper.rs)                                             *)

\* Variant: the name is not looked up in the listing.
FileHelper_create_Unchecked(w, name, user_metatdata, directory_listing) ==
    Ok(NewWriter("Overwrite", directory_listing,
                 NewFile(name, user_metatdata, NoDataMap, now_utc(w))),
       Tick(w))

FileHelper_create(w, name, user_metatdata, directory_listing) ==
    IF find_file(directory_listing, name).Found THEN NfsErr("AlreadyExists", w)
    ELSE Ok(NewWriter("Overwrite", directory_listing,
                      NewFile(name, user_metatdata, NoDataMap, now_utc(w))),
            Tick(w))

\* Variant: the file is taken out of the caller's listing only.
FileHelper_delete_InMemory(w, file_name, directory_listing) ==
    IF get_file_index(directory_listing, file_name) = 0
    THEN NfsErr("FileNotFound", [w EXCEPT !.parent_directory = directory_listing])
    ELSE Ok(TRUE, [w EXCEPT !.parent_directory =
                       [directory_listing EXCEPT !.files =
                           RemoveAt(@, get_file_index(directory_listing,
                                                      file_name))]])

\* w.parent_directory is the caller's listing behind the &mut, as the call
\* leaves it.
FileHelper_delete(w, file_name, directory_listing) ==
    IF get_file_index(directory_listing, file_name) = 0
    THEN NfsErr("FileNotFound", [w EXCEPT !.parent_directory = directory_listing])
    ELSE LET removed == [directory_listing EXCEPT !.files =
                            RemoveAt(@, get_file_index(directory_listing,
                                                       file_name))]
         IN  Try(update([w EXCEPT !.parent_directory = removed], removed),
                 LAMBDA updated : Ok(TRUE, updated.w))

\* Variant: the writer is always one that overwrites.
FileHelper_update_Overwriting(w, file, mode, directory_listing) ==
    IF ~find_file(directory_listing, get_name(file)).Found
    THEN NfsErr("FileNotFound", w)
    ELSE Ok(NewWriter("Overwrite", directory_listing, file), w)

FileHelper_update(w, file, mode, directory_listing) ==
    IF ~find_file(directory_listing, get_name(file)).Found
    THEN NfsErr("FileNotFound", w)
    ELSE Ok(NewWriter(mode, directory_listing, file), w)

FileHelper_update_metadata(w, file, user_metadata, directory_listing) ==
    IF ~find_file(directory_listing, get_name(file)).Found
    THEN NfsErr("FileNotFound", w)
    ELSE Try(upsert_refusal(w, get_name(file)), LAMBDA accepted :
             update(Tick(accepted.w),
                    upsert_file(directory_listing,
                                set_user_metadata(file, user_metadata),
                                now_utc(accepted.w))))

\* ::time::empty_tm(): a time that no clock reading equals.
empty_tm == 0

\* The loop of get_versions over sdv_versions from position k on: versions
\* are the files pushed so far, modified_time the one of the last pushed.
RECURSIVE versions_from(_, _, _, _, _, _, _)
versions_from(w, file, directory_listing, sdv_versions, k, modified_time, versions) ==
    IF k > Len(sdv_versions) THEN Ok(versions, w)
    ELSE Try(get_by_version(w, get_key(directory_listing),
                            directory_listing.info.access_level, sdv_versions[k]),
             LAMBDA listing :
             IF /\ find_file(listing.val, get_name(file)).Found
                /\ find_file(listing.val, get_name(file)).file.metadata.modified_time
                       # modified_time
             THEN versions_from(listing.w, file, directory_listing, sdv_versions,
                                k + 1,
                                find_file(listing.val, get_name(file))
                                    .file.metadata.modified_time,
                                Append(versions,
                                       find_file(listing.val, get_name(file)).file))
             ELSE versions_from(listing.w, file, directory_listing, sdv_versions,
                                k + 1, modified_time, versions))

\* Variant: only the latest version of the listing is looked at.
FileHelper_get_versions_LatestOnly(w, file, directory_listing) ==
    Try(get_versions(w, get_key(directory_listing)), LAMBDA sdv_versions :
        versions_from(sdv_versions.w, file, directory_listing, sdv_versions.val,
                      IF sdv_versions.val = <<>> THEN 1 ELSE Len(sdv_versions.val),
                      empty_tm, <<>>))

FileHelper_get_versions(w, file, directory_listing) ==
    Try(get_versions(w, get_key(directory_listing)), LAMBDA sdv_versions :
        versions_from(sdv_versions.w, file, directory_listing,
                      sdv_versions.val, 1, empty_tm, <<>>))

FileHelper_read(w, file, directory_listing) ==
    IF ~find_file(directory_listing, get_name(file)).Found
    THEN NfsErr("FileNotFound", w)
    ELSE Ok(NewReader(file), w)

----------------------------------------------------------------------------
(* The calling thread: one helper call per step                            *)

UserMetadata == {<<>>}
CreateNames == {"a"}

World(failAt, relock) ==
    [sds |-> sds, blobs |-> blobs, session |-> session, mutex |-> mutex,
     nextId |-> nextId, clock |-> clock,
     self |-> "main", relock |-> relock, failAt |-> failAt,
     n |-> 0, log |-> <<>>, parent_directory |-> NoListing]

\* The substrate failures a call may meet: none, or one of the substrate
\* calls that the call makes when none fails (r0 is that execution).
FailAts(r0) == IF calls + 2 <= MaxCalls THEN 0 .. r0.w.n ELSE {0}

Cost(failAt) == IF failAt = 0 THEN 1 ELSE 2

Held == DOMAIN mem

\* The File values in the listings of a memory.
FilesOf(held) ==
    UNION {{held[i].files[k] : k \in DOMAIN held[i].files} : i \in DOMAIN held}

set_name(directory, name) == [directory EXCEPT !.info.name = name]

Return(r, op, arg, newmem, failAt) ==
    /\ sds' = r.w.sds
    /\ blobs' = r.w.blobs
    /\ session' = r.w.session
    /\ mutex' = r.w.mutex
    /\ nextId' = r.w.nextId
    /\ clock' = r.w.clock
    /\ calls' = calls + Cost(failAt)
    /\ mem' = newmem
    /\ copies' = copies \cup FilesOf(newmem)
    /\ pc' = IF r.st = "Blocked" THEN "blocked"
             ELSE IF r.st = "Panicked" THEN "panicked" ELSE "ready"
    /\ last' = [op |-> op, arg |-> arg, st |-> r.st, val |-> r.val,
                log |-> r.w.log, failed |-> failAt # 0, failAt |-> failAt]
    /\ th' = th

\* A client of a new account: nothing stored, no root identity known.
NewAccount ==
    [sds |-> << >>, blobs |-> << >>,
     session |-> [user_root |-> NoId, config_root |-> NoId],
     mutex |-> "free", nextId |-> 1, clock |-> 0,
     self |-> "main", relock |-> "deadlock", failAt |-> 0, n |-> 0, log |-> <<>>,
     parent_directory |-> NoListing]

\* A client logged in to an account whose user root and configuration root
\* exist: the session knows their identities.
ExistingAccount ==
    Try(create(NewAccount, ROOT_DIRECTORY_NAME, UNVERSIONED_DIRECTORY_LISTING_TAG,
               <<>>, FALSE, "Private", NoListing),
        LAMBDA root :
    Try(set_root_directory_id(root.w, "user_root", get_key(root.val)[1]),
        LAMBDA user :
    Try(create(user.w, CONFIGURATION_DIRECTORY_NAME,
               UNVERSIONED_DIRECTORY_LISTING_TAG, <<>>, FALSE, "Private", NoListing),
        LAMBDA config :
        set_root_directory_id(config.w, "config_root", get_key(config.val)[1])))).w

\* DirectoryHelper::new(client): the helper holds the client it is given.
StartAll(w, held, threads) ==
    /\ sds = w.sds
    /\ blobs = w.blobs
    /\ session = w.session
    /\ mutex = "free"
    /\ nextId = w.nextId
    /\ clock = w.clock
    /\ calls = 0
    /\ mem = held
    /\ copies = FilesOf(held)
    /\ pc = "ready"
    /\ last = [op |-> "new", arg |-> <<>>, st |-> "Ok", val |-> NoListing,
               log |-> <<>>, failed |-> FALSE, failAt |-> 0]
    /\ th = threads

\* One calling thread.
StartWith(w, held) == StartAll(w, held, << >>)

Start(w) == StartWith(w, << >>)

Init == Start(NewAccount)

InitExistingAccount == Start(ExistingAccount)

CallCreate ==
    /\ pc = "ready"
    /\ calls < MaxCalls
    /\ \E name \in CreateNames, tag_type \in Tags, user_metadata \in UserMetadata,
          versioned \in BOOLEAN, access_level \in AccessLevel,
          p \in Held \cup {0} :
        LET parent == IF p = 0 THEN NoListing ELSE mem[p]
            Run(failAt) == create(World(failAt, "deadlock"), name, tag_type,
                                  user_metadata, versioned, access_level, parent)
        IN  \E failAt \in FailAts(Run(0)) :
            LET r == Run(failAt)
                kept == IF p = 0 THEN mem ELSE [mem EXCEPT ![p] = r.w.parent_directory]
            IN  Return(r, "create",
                       [id |-> nextId, parent |-> p, name |-> name,
                        tag_type |-> tag_type, versioned |-> versioned,
                        access_level |-> access_level],
                       IF r.st = "Ok" THEN Put(kept, nextId, r.val) ELSE kept, failAt)

CallGet ==
    /\ pc = "ready"
    /\ calls < MaxCalls
    /\ \E i \in Held :
        LET Run(failAt) == get(World(failAt, "deadlock"), get_key(mem[i]),
                               mem[i].info.versioned, mem[i].info.access_level)
        IN  \E failAt \in FailAts(Run(0)) :
            LET r == Run(failAt)
            IN  Return(r, "get", <<i>>,
                       IF r.st = "Ok" THEN [mem EXCEPT ![i] = r.val] ELSE mem,
                       failAt)

\* get_mut_metadata().set_name(name) on a listing the caller holds, then
\* update of that listing.
CallUpdate ==
    /\ pc = "ready"
    /\ calls < MaxCalls
    /\ \E i \in Held, name \in Names :
        LET directory == set_name(mem[i], name)
            Run(failAt) == update(World(failAt, "deadlock"), directory)
        IN  \E failAt \in FailAts(Run(0)) :
            Return(Run(failAt), "update", <<i>>, [mem EXCEPT ![i] = directory],
                   failAt)

CallUpdateAndParent ==
    /\ pc = "ready"
    /\ calls < MaxCalls
    /\ \E i \in Held, name \in Names :
        LET directory == set_name(mem[i], name)
            Run(failAt) == update_directory_listing_and_parent(
                               World(failAt, "deadlock"), directory)
        IN  \E failAt \in FailAts(Run(0)) :
            Return(Run(failAt), "update_directory_listing_and_parent", <<i>>,
                   [mem EXCEPT ![i] = directory],
                   failAt)

CallGetVersions ==
    /\ pc = "ready"
    /\ calls < MaxCalls
    /\ \E i \in Held :
        LET Run(failAt) == get_versions(World(failAt, "deadlock"), get_key(mem[i]))
        IN  \E failAt \in FailAts(Run(0)) :
            Return(Run(failAt), "get_versions", <<i>>, mem, failAt)

\* get_by_version of a version identifier that get_versions returns.
CallGetByVersion ==
    /\ pc = "ready"
    /\ calls < MaxCalls
    /\ \E i \in Held :
        LET versions == get_versions(World(0, "deadlock"), get_key(mem[i]))
        IN  /\ versions.st = "Ok"
            /\ \E k \in 1 .. Len(versions.val) :
                LET Run(failAt) == get_by_version(World(failAt, "deadlock"),
                                                  get_key(mem[i]),
                                                  mem[i].info.access_level,
                                                  versions.val[k])
                IN  \E failAt \in FailAts(Run(0)) :
                    Return(Run(failAt), "get_by_version", <<i, k>>, mem, failAt)

CallGetUserRoot ==
    /\ pc = "ready"
    /\ calls < MaxCalls
    /\ \E relock \in {"deadlock", "panic"} :
        LET Run(failAt) == get_user_root_directory_listing(World(failAt, relock))
        IN  \E failAt \in FailAts(Run(0)) :
            Return(Run(failAt), "get_user_root_directory_listing", <<>>, mem, failAt)

CallGetConfiguration ==
    /\ pc = "ready"
    /\ calls < MaxCalls
    /\ \E directory_name \in Names, relock \in {"deadlock", "panic"} :
        LET Run(failAt) == get_configuration_directory_listing(
                               World(failAt, relock), directory_name)
        IN  \E failAt \in FailAts(Run(0)) :
            Return(Run(failAt), "get_configuration_directory_listing",
                   <<directory_name>>, mem, failAt)

\* The tag under which save_directory_listing stores a listing of that
\* versioned flag.
TagOf(versioned) ==
    IF versioned THEN VERSIONED_DIRECTORY_LISTING_TAG
    ELSE UNVERSIONED_DIRECTORY_LISTING_TAG

HOME_DIRECTORY_NAME == "home"
SubDirectoryNames == {"a", ""}

\* A client that holds the listing of a directory of its own, made with
\* create in a new account.
StartHolding(r) == StartWith(r.w, get_key(r.val)[1] :> r.val)

HomeDirectory(versioned, access_level) ==
    create(NewAccount, HOME_DIRECTORY_NAME, TagOf(versioned), <<>>, versioned,
           access_level, NoListing)

InitDirectories ==
    \E versioned \in BOOLEAN, access_level \in AccessLevel :
        StartHolding(HomeDirectory(versioned, access_level))

\* create of a sub-directory of a listing the caller holds, with the access
\* level of its parent and under the tag of its versioned flag.
CallCreateSubDirectory ==
    /\ pc = "ready"
    /\ calls < MaxCalls
    /\ \E name \in SubDirectoryNames, versioned \in BOOLEAN, p \in Held :
        LET Run(failAt) == create(World(failAt, "deadlock"), name, TagOf(versioned),
                                  <<>>, versioned, mem[p].info.access_level, mem[p])
        IN  \E failAt \in FailAts(Run(0)) :
            LET r == Run(failAt)
                kept == [mem EXCEPT ![p] = r.w.parent_directory]
            IN  Return(r, "create",
                       [id |-> nextId, parent |-> p, name |-> name,
                        tag_type |-> TagOf(versioned), versioned |-> versioned,
                        access_level |-> mem[p].info.access_level],
                       IF r.st = "Ok" THEN Put(kept, nextId, r.val) ELSE kept, failAt)

CallDelete ==
    /\ pc = "ready"
    /\ calls < MaxCalls
    /\ \E p \in Held, directory_to_delete \in Names :
        LET Run(failAt) == delete(World(failAt, "deadlock"), mem[p], directory_to_delete)
        IN  \E failAt \in FailAts(Run(0)) :
            LET r == Run(failAt)
            IN  Return(r, "delete", [parent |-> p, name |-> directory_to_delete],
                       [mem EXCEPT ![p] = r.w.parent_directory], failAt)

FileNames == {"f", "g"}
FileUserMetadata == {<<7>>}
Written == {<<>>, <<2, 2>>}

\* A caller whose directory holds a file "f" of one byte, written through
\* FileHelper::create and a Writer.
HomeWithFile(versioned, access_level) ==
    Try(HomeDirectory(versioned, access_level), LAMBDA home :
    Try(FileHelper_create(home.w, "f", <<>>, home.val), LAMBDA writer :
        close(writer.w, writer.val, <<1>>)))

InitFiles ==
    \E versioned \in BOOLEAN, access_level \in AccessLevel :
        StartHolding(HomeWithFile(versioned, access_level))

CallFileCreate ==
    /\ pc = "ready"
    /\ calls < MaxCalls
    /\ \E i \in Held, name \in FileNames, user_metatdata \in UserMetadata :
        LET Run(failAt) == FileHelper_create(World(failAt, "deadlock"), name,
                                             user_metatdata, mem[i])
        IN  \E failAt \in FailAts(Run(0)) :
            Return(Run(failAt), "FileHelper::create",
                   [listing |-> i, name |-> name], mem, failAt)

CallFileDelete ==
    /\ pc = "ready"
    /\ calls < MaxCalls
    /\ \E i \in Held, file_name \in FileNames :
        LET Run(failAt) == FileHelper_delete(World(failAt, "deadlock"), file_name,
                                             mem[i])
        IN  \E failAt \in FailAts(Run(0)) :
            LET r == Run(failAt)
            IN  Return(r, "FileHelper::delete", [listing |-> i, name |-> file_name],
                       [mem EXCEPT ![i] = r.w.parent_directory], failAt)

CallFileUpdate ==
    /\ pc = "ready"
    /\ calls < MaxCalls
    /\ \E i \in Held, file \in copies, mode \in Mode :
        LET Run(failAt) == FileHelper_update(World(failAt, "deadlock"), file, mode,
                                             mem[i])
        IN  \E failAt \in FailAts(Run(0)) :
            Return(Run(failAt), "FileHelper::update",
                   [listing |-> i, file |-> file, mode |-> mode], mem, failAt)

CallFileUpdateMetadata ==
    /\ pc = "ready"
    /\ calls < MaxCalls
    /\ \E i \in Held, file \in copies, user_metadata \in FileUserMetadata :
        LET Run(failAt) == FileHelper_update_metadata(World(failAt, "deadlock"),
                                                      file, user_metadata, mem[i])
        IN  \E failAt \in FailAts(Run(0)) :
            Return(Run(failAt), "FileHelper::update_metadata",
                   [listing |-> i, file |-> file, user_metadata |-> user_metadata],
                   mem, failAt)

CallFileRead ==
    /\ pc = "ready"
    /\ calls < MaxCalls
    /\ \E i \in Held, file \in copies :
        LET Run(failAt) == FileHelper_read(World(failAt, "deadlock"), file, mem[i])
        IN  \E failAt \in FailAts(Run(0)) :
            Return(Run(failAt), "FileHelper::read",
                   [listing |-> i, file |-> file], mem, failAt)

Offsets == {0, 1}
Lengths == {0, 1, 2}

\* read of a range through the Reader the last call returned.
CallRead ==
    /\ pc = "ready"
    /\ calls < MaxCalls
    /\ last.op = "FileHelper::read"
    /\ last.st = "Ok"
    /\ \E offset \in Offsets, length \in Lengths :
        Return(read(World(0, "deadlock"), last.val, offset, length), "Reader::read",
               [listing |-> last.arg.listing, reader |-> last.val,
                offset |-> offset, length |-> length], mem, 0)

CallFileGetVersions ==
    /\ pc = "ready"
    /\ calls < MaxCalls
    /\ \E i \in Held, file \in copies :
        LET Run(failAt) == FileHelper_get_versions(World(failAt, "deadlock"), file,
                                                   mem[i])
        IN  \E failAt \in FailAts(Run(0)) :
            Return(Run(failAt), "FileHelper::get_versions",
                   [listing |-> i, file |-> file], mem, failAt)

\* write(written, 0) and close() on the writer that the last call returned;
\* the caller goes on with the listing that close returns.
CallClose ==
    /\ pc = "ready"
    /\ calls < MaxCalls
    /\ last.op \in {"FileHelper::create", "FileHelper::update"}
    /\ last.st = "Ok"
    /\ \E written \in Written :
        LET Run(failAt) == close(World(failAt, "deadlock"), last.val, written)
        IN  \E failAt \in FailAts(Run(0)) :
            LET r == Run(failAt)
            IN  Return(r, "Writer::close",
                       [listing |-> last.arg.listing, written |-> written,
                        writer |-> last.val],
                       IF r.st = "Ok"
                       THEN [mem EXCEPT ![last.arg.listing] = r.val] ELSE mem,
                       failAt)

Next ==
    \/ CallCreate
    \/ CallGet
    \/ CallUpdate
    \/ CallUpdateAndParent
    \/ CallGetVersions
    \/ CallGetByVersion
    \/ CallGetUserRoot
    \/ CallGetConfiguration

Spec == Init /\ [][Next]_vars

SpecExistingAccount == InitExistingAccount /\ [][Next]_vars

NextDirectories ==
    \/ CallCreateSubDirectory
    \/ CallDelete
    \/ CallGet

SpecDirectories == InitDirectories /\ [][NextDirectories]_vars

NextFiles ==
    \/ CallFileCreate
    \/ CallFileDelete
    \/ CallFileUpdate
    \/ CallFileUpdateMetadata
    \/ CallFileRead
    \/ CallRead
    \/ CallFileGetVersions
    \/ CallClose
    \/ CallGet
    \/ CallGetVersions

SpecFiles == InitFiles /\ [][NextFiles]_vars

----------------------------------------------------------------------------
(* Several threads that share the client and the helper                    *)

Threads == {"main", "other"}
ThreadNames == {"b", "c"}

NoPending == [none |-> "pending"]

\* A caller whose directory "home" lists one sub-directory, "a".
HomeWithSubDirectory(versioned, access_level) ==
    Try(HomeDirectory(versioned, access_level), LAMBDA home :
    Try(create(home.w, "a", TagOf(versioned), <<>>, versioned, access_level,
               home.val),
        LAMBDA child : Ok(child.w.parent_directory, child.w)))

\* Each thread starts with its own copy of the listing of "home".
StartThreads(r) ==
    StartAll(r.w, << >>,
             [t \in Threads |->
                 [pc |-> "ready", mem |-> (get_key(r.val)[1] :> r.val),
                  pending |-> NoPending, calls |-> 0,
                  last |-> [op |-> "new", arg |-> <<>>, st |-> "Ok",
                            val |-> NoListing, log |-> <<>>]]])

InitThreads ==
    \E versioned \in BOOLEAN :
        StartThreads(HomeWithSubDirectory(versioned, "Private"))

\* The world as thread t meets it.
ThreadWorld(t, failAt, relock) == [World(failAt, relock) EXCEPT !.self = t]

\* lock() returns at once unless another thread holds a guard.
CanLock(t) == mutex \notin (Threads \ {t})

\* The thread after a call that has come to its end.
Finished(t, r, op, arg, newmem) ==
    [pc |-> IF r.st = "Blocked" THEN "blocked"
            ELSE IF r.st = "Panicked" THEN "panicked" ELSE "ready",
     mem |-> newmem, pending |-> NoPending, calls |-> th[t].calls + 1,
     last |-> [op |-> op, arg |-> arg, st |-> r.st, val |-> r.val,
               log |-> r.w.log]]

ThreadReturn(t, r, cost, entry) ==
    /\ sds' = r.w.sds
    /\ blobs' = r.w.blobs
    /\ session' = r.w.session
    /\ mutex' = r.w.mutex
    /\ nextId' = r.w.nextId
    /\ clock' = r.w.clock
    /\ calls' = calls + cost
    /\ th' = [th EXCEPT ![t] = entry]
    /\ UNCHANGED <<mem, copies, pc, last>>

\* update of a listing the thread holds, up to the post: the mutex is free
\* between the substrate calls, so that the other thread may run before the
\* record made here is posted.
ThreadUpdateRecord(t) ==
    /\ th[t].pc = "ready"
    /\ calls < MaxCalls
    /\ CanLock(t)
    /\ \E i \in DOMAIN th[t].mem, name \in Names :
        LET directory == set_name(th[t].mem[i], name)
            r == update_directory_listing_record(ThreadWorld(t, 0, "deadlock"),
                                                 directory)
        IN  ThreadReturn(t, r, 1,
                IF r.st = "Ok"
                THEN [th[t] EXCEPT !.pc = "posting", !.mem[i] = directory,
                                   !.pending = [listing |-> i,
                                                directory |-> directory,
                                                updated |-> r.val]]
                ELSE Finished(t, r, "update", [listing |-> i],
                              [th[t].mem EXCEPT ![i] = directory]))

\* The rest of that update: the post, which the substrate may reject, and
\* the re-fetch.
ThreadUpdatePost(t) ==
    /\ th[t].pc = "posting"
    /\ CanLock(t)
    /\ \E failAt \in (IF calls < MaxCalls THEN {0, 1} ELSE {0}) :
        LET r == update_directory_listing_post(ThreadWorld(t, failAt, "deadlock"),
                                               th[t].pending.directory,
                                               th[t].pending.updated)
        IN  ThreadReturn(t, r, IF failAt = 0 THEN 0 ELSE 1,
                Finished(t, r, "update",
                         [listing |-> th[t].pending.listing,
                          posted |-> th[t].pending.updated],
                         th[t].mem))

RootSlots == {"user_root", "config_root"}

RootCall(slot) ==
    IF slot = "user_root" THEN "get_user_root_directory_listing"
    ELSE "get_configuration_directory_listing"

\* The scrutinee of the match of a root call is evaluated: the thread has
\* the id of the slot and the guard.
ThreadRootLocked(t, slot, cost) ==
    LET r == get_root_directory_id(ThreadWorld(t, 0, "deadlock"), slot)
    IN  ThreadReturn(t, r, cost,
            IF r.st = "Ok"
            THEN [th[t] EXCEPT !.pc = "matching",
                               !.pending = [slot |-> slot, id |-> r.val]]
            ELSE Finished(t, r, RootCall(slot), [slot |-> slot], th[t].mem))

\* get_user_root_directory_listing or get_configuration_directory_listing
\* is called: the thread locks the client, or waits for the guard that the
\* other thread holds.
ThreadRootCall(t) ==
    /\ th[t].pc = "ready"
    /\ calls < MaxCalls
    /\ \E slot \in RootSlots :
        IF CanLock(t) THEN ThreadRootLocked(t, slot, 1)
        ELSE /\ th' = [th EXCEPT ![t].pc = "waiting",
                                 ![t].pending = [slot |-> slot]]
             /\ calls' = calls + 1
             /\ UNCHANGED <<sds, blobs, session, mutex, nextId, clock, mem,
                            copies, pc, last>>

\* The mutex is given up, by unlock or by a panic: the waiting thread goes on.
ThreadRootWake(t) ==
    /\ th[t].pc = "waiting"
    /\ CanLock(t)
    /\ ThreadRootLocked(t, th[t].pending.slot, 0)

\* The arm of the match runs, with the guard where the scrutinee left it.
ThreadRootArm(t) ==
    /\ th[t].pc = "matching"
    /\ \E relock \in {"deadlock", "panic"}, directory_name \in {"a"} :
        LET w == ThreadWorld(t, 0, relock)
            r == IF th[t].pending.slot = "user_root"
                 THEN user_root_arm(w, th[t].pending.id)
                 ELSE configuration_root_arm(w, th[t].pending.id, directory_name)
        IN  ThreadReturn(t, r, 0,
                Finished(t, r, RootCall(th[t].pending.slot),
                         [slot |-> th[t].pending.slot], th[t].mem))

\* create of a sub-directory of a listing the thread holds a copy of.
ThreadCreate(t) ==
    /\ th[t].pc = "ready"
    /\ calls < MaxCalls
    /\ CanLock(t)
    /\ \E p \in DOMAIN th[t].mem, name \in ThreadNames :
        LET parent == th[t].mem[p]
            r == create(ThreadWorld(t, 0, "deadlock"), name,
                        TagOf(parent.info.versioned), <<>>, parent.info.versioned,
                        parent.info.access_level, parent)
        IN  ThreadReturn(t, r, 1,
                Finished(t, r, "create", [parent |-> p, name |-> name],
                         [th[t].mem EXCEPT ![p] = r.w.parent_directory]))

\* delete of a sub-directory from a listing the thread holds a copy of.
ThreadDelete(t) ==
    /\ th[t].pc = "ready"
    /\ calls < MaxCalls
    /\ CanLock(t)
    /\ \E p \in DOMAIN th[t].mem, directory_to_delete \in {"a"} \cup ThreadNames :
        LET r == delete(ThreadWorld(t, 0, "deadlock"), th[t].mem[p],
                        directory_to_delete)
        IN  ThreadReturn(t, r, 1,
                Finished(t, r, "delete",
                         [parent |-> p, name |-> directory_to_delete],
                         [th[t].mem EXCEPT ![p] = r.w.parent_directory]))

\* get of a listing the thread holds: its copy is the persisted listing.
ThreadGet(t) ==
    /\ th[t].pc = "ready"
    /\ calls < MaxCalls
    /\ CanLock(t)
    /\ \E i \in DOMAIN th[t].mem :
        LET r == get(ThreadWorld(t, 0, "deadlock"), get_key(th[t].mem[i]),
                     th[t].mem[i].info.versioned, th[t].mem[i].info.access_level)
        IN  ThreadReturn(t, r, 1,
                Finished(t, r, "get", [listing |-> i],
                         IF r.st = "Ok" THEN [th[t].mem EXCEPT ![i] = r.val]
                         ELSE th[t].mem))

NextThreads ==
    \E t \in Threads :
        \/ ThreadUpdateRecord(t)
        \/ ThreadUpdatePost(t)
        \/ ThreadRootCall(t)
        \/ ThreadRootWake(t)
        \/ ThreadRootArm(t)
        \/ ThreadCreate(t)
        \/ ThreadDelete(t)
        \/ ThreadGet(t)

SpecThreads == InitThreads /\ [][NextThreads]_vars

----------------------------------------------------------------------------
(* Properties                                                              *)

\* The substrate as it is now, answering every call.
Now == World(0, "deadlock")

\* get of a listing by its own key, versioned flag and access level.
Fetch(w, directory) ==
    get(w, get_key(directory), directory.info.versioned, directory.info.access_level)

\* The substrate as the step leaves it.
After ==
    [Now EXCEPT !.sds = sds', !.blobs = blobs', !.session = session',
                !.mutex = mutex', !.nextId = nextId', !.clock = clock']

\* The step is a call of the helper operation op.
Called(op) == calls' > calls /\ last'.op = op

SameResult(x, y) == x.st = y.st /\ (x.st = "Ok" => x.val = y.val)

Last(seq) == seq[Len(seq)]

Entries(directory) ==
    {directory.sub_directories[k] : k \in 1 .. Len(directory.sub_directories)}

\* C1: a successful create, whatever its type_tag, versioned flag and access
\* level, followed by get(key, versioned, access_level) of the created
\* listing succeeds and returns a listing equal to the created one.
C1_CreateGetRoundTrip ==
    (last.op = "create" /\ last.st = "Ok")
        => /\ Fetch(Now, last.val).st = "Ok"
           /\ Fetch(Now, last.val).val = last.val

\* C2: right after the create of a versioned listing get_versions(key) has
\* length 1, and every successful update of a versioned listing makes
\* get_versions(key) exactly one longer.
C2_CreatedWithOneVersion ==
    (last.op = "create" /\ last.st = "Ok" /\ last.val.info.versioned)
        => /\ get_versions(Now, get_key(last.val)).st = "Ok"
           /\ Len(get_versions(Now, get_key(last.val)).val) = 1

C2_UpdateAddsOneVersion ==
    (Called("update") /\ last'.st = "Ok" /\ last'.val.info.versioned)
        => \A before \in {get_versions(Now, get_key(last'.val))},
              after \in {get_versions(After, get_key(last'.val))} :
                /\ before.st = "Ok"
                /\ after.st = "Ok"
                /\ Len(after.val) = Len(before.val) + 1

\* C2: both parts, over every behaviour.
C2_VersionMonotonicity ==
    [](C2_CreatedWithOneVersion) /\ [][C2_UpdateAddsOneVersion]_vars

C2_Witness ==
    /\ last.op = "update" /\ last.st = "Ok" /\ last.val.info.versioned
    /\ Len(get_versions(Now, get_key(last.val)).val) = 3

\* C3: a version identifier that get_versions(key) returns keeps its place
\* in the chain through every later step, and get_by_version of it keeps
\* returning the same listing.
C3_StepKeepsHistory ==
    pc' = "ready" =>
        \A id \in 1 .. (nextId - 1) :
            \A key \in {<<id, VERSIONED_DIRECTORY_LISTING_TAG>>} :
            \A before \in {get_versions(Now, key)}, after \in {get_versions(After, key)} :
                before.st = "Ok" =>
                    /\ after.st = "Ok"
                    /\ Len(after.val) >= Len(before.val)
                    /\ \A k \in 1 .. Len(before.val) :
                        /\ after.val[k] = before.val[k]
                        /\ \A access_level \in AccessLevel :
                            SameResult(
                               get_by_version(Now, key, access_level, before.val[k]),
                               get_by_version(After, key, access_level, before.val[k]))

\* C3: every step keeps the history.
C3_HistoricalImmutability == [][C3_StepKeepsHistory]_vars

\* A chain of three snapshots, the first of which still reads as the
\* listing under its first name while the listing has been renamed.
C3_Witness ==
    /\ last.op = "update" /\ last.st = "Ok" /\ last.val.info.versioned
    /\ \E versions \in {get_versions(Now, get_key(last.val))} :
        /\ versions.st = "Ok" /\ Len(versions.val) = 3
        /\ \E first \in {get_by_version(Now, get_key(last.val),
                                        last.val.info.access_level, versions.val[1])} :
            first.st = "Ok" /\ first.val.info.name # last.val.info.name

\* C4: a successful update(L) returns a listing equal to L, and a get that
\* follows it returns a listing equal to L, which for a versioned listing
\* is the snapshot that the last element of the version chain names.
C4_UpdateReturnsWhatItStored ==
    (last.op = "update" /\ last.st = "Ok") =>
        \A L \in {mem[last.arg[1]]} :
            /\ last.val = L
            /\ Fetch(Now, L).st = "Ok"
            /\ Fetch(Now, L).val = L
            /\ L.info.versioned =>
                \A versions \in {get_versions(Now, get_key(L))} :
                    /\ versions.st = "Ok"
                    /\ get_by_version(Now, get_key(L), L.info.access_level,
                                      Last(versions.val)).st = "Ok"
                    /\ get_by_version(Now, get_key(L), L.info.access_level,
                                      Last(versions.val)).val = L

\* An update that stored a renamed listing over the one first created.
C4_Witness ==
    /\ last.op = "update" /\ last.st = "Ok"
    /\ last.val.info.name = "b"
    /\ sds[compute_name(get_key(last.val)[2], get_key(last.val)[1])].version >= 1

\* C5: after a successful create(name, .., Some(parent)) the child's
\* parent_dir_key is the parent's key, the caller's parent has an entry
\* named name, and a fresh get of the parent finds a sub-directory name.
C5_ParentLinkage ==
    (last.op = "create" /\ last.st = "Ok" /\ last.arg.parent # 0) =>
        \A parent \in {mem[last.arg.parent]} :
            /\ last.val.info.parent_dir_key = get_key(parent)
            /\ find_sub_directory(parent, last.arg.name) # NoListing
            /\ Fetch(Now, parent).st = "Ok"
            /\ find_sub_directory(Fetch(Now, parent).val, last.arg.name) # NoListing

C5_Witness ==
    /\ last.op = "create" /\ last.st = "Ok" /\ last.arg.parent # 0
    /\ get_info(last.val) \in Entries(Fetch(Now, mem[last.arg.parent]).val)

\* The listing that a key names, read as the root calls read it.
RootListing(w, id) ==
    get(w, <<id, UNVERSIONED_DIRECTORY_LISTING_TAG>>, FALSE, "Private")

\* C6: on a session whose user-root id is unset the first
\* get_user_root_directory_listing() returns a new listing named
\* ROOT_DIRECTORY_NAME, unversioned, private, without parent, and sets the
\* session's user-root id to its key; a call on a session whose id is set
\* creates nothing and returns the listing of that key.
C6_FirstCallCreatesRoot ==
    (Called("get_user_root_directory_listing") /\ session.user_root = NoId
        /\ ~last'.failed)
        => /\ last'.st = "Ok"
           /\ last'.val.info.name = ROOT_DIRECTORY_NAME
           /\ ~last'.val.info.versioned
           /\ last'.val.info.access_level = "Private"
           /\ last'.val.info.parent_dir_key = NoKey
           /\ get_key(last'.val)[1] \notin 1 .. (nextId - 1)
           /\ session'.user_root = get_key(last'.val)[1]

C6_LaterCallReturnsRoot ==
    (Called("get_user_root_directory_listing") /\ session.user_root # NoId
        /\ ~last'.failed)
        => /\ last'.st = "Ok"
           /\ get_key(last'.val)[1] = session.user_root
           /\ session' = session
           /\ sds' = sds
           /\ nextId' = nextId

\* C6: both parts, over every step.
C6_UserRootLazyInit ==
    [][C6_FirstCallCreatesRoot /\ C6_LaterCallReturnsRoot]_vars

\* C7: get_configuration_directory_listing(n) returns a listing named n
\* that the stored configuration root lists as a sub-directory; when the
\* configuration root already lists n the call returns the listing of that
\* entry's key and adds no record and no entry.
C7_ReturnsListedChild ==
    (Called("get_configuration_directory_listing") /\ ~last'.failed)
        => /\ last'.st = "Ok"
           /\ last'.val.info.name = last'.arg[1]
           /\ session'.config_root # NoId
           /\ RootListing([After EXCEPT !.mutex = "free"], session'.config_root).st = "Ok"
           /\ get_info(last'.val) \in
                Entries(RootListing([After EXCEPT !.mutex = "free"],
                                    session'.config_root).val)

C7_FindsBeforeCreating ==
    (Called("get_configuration_directory_listing") /\ ~last'.failed
        /\ session.config_root # NoId
        /\ RootListing(Now, session.config_root).st = "Ok"
        /\ find_sub_directory(RootListing(Now, session.config_root).val,
                              last'.arg[1]) # NoListing)
        => /\ last'.st = "Ok"
           /\ get_info(last'.val).key =
                find_sub_directory(RootListing(Now, session.config_root).val,
                                   last'.arg[1]).key
           /\ sds' = sds
           /\ nextId' = nextId

\* C7: both parts, over every step.
C7_ConfigurationFindOrCreate ==
    [][C7_ReturnsListedChild /\ C7_FindsBeforeCreating]_vars

\* C8: a helper call made by the one thread returns a result: it ends
\* neither waiting for the client mutex that it holds itself nor in a panic.
C8_EveryCallReturns ==
    /\ last.st \in {"Ok", "Err"}
    /\ pc = "ready"
    /\ mutex = "free"

\* The listing's parent as the caller holds it.
ParentOf(directory) == mem[directory.info.parent_dir_key[1]]

\* C9: update_directory_listing_and_parent(listing), with no substrate
\* failure, on a listing that is stored (and whose parent, if any, is stored),
\* whatever the versioned flags and access levels of the two: succeeds; with a
\* parent it returns the stored parent, whose entries include the listing's
\* info; without a parent it returns None and the listing is stored.
C9_UpdatesListingThenParent ==
    (last.op = "update_directory_listing_and_parent" /\ ~last.failed) =>
        \A directory \in {mem[last.arg[1]]} :
            IF directory.info.parent_dir_key = NoKey
            THEN Fetch(Now, directory).st = "Ok"
                    => /\ last.st = "Ok"
                       /\ last.val = NoListing
                       /\ Fetch(Now, directory).val = directory
            ELSE (Fetch(Now, directory).st = "Ok"
                    /\ Fetch(Now, ParentOf(directory)).st = "Ok")
                    => /\ last.st = "Ok"
                       /\ last.val # NoListing
                       /\ get_info(directory) \in Entries(last.val)
                       /\ Fetch(Now, ParentOf(directory)).val = last.val
                       /\ Fetch(Now, directory).val = directory

\* C10: when create with a parent, or update_directory_listing_and_parent,
\* returns an error after it has stored the child's record, get of the
\* child's key with the child's versioned flag and access level returns the
\* child as stored.
C10_CreateLeavesChildReadable ==
    (Called("create") /\ last'.st = "Err" /\ last'.arg.parent # 0
        /\ DOMAIN sds' # DOMAIN sds)
        => \A child \in {get(After, <<last'.arg.id, last'.arg.tag_type>>,
                             last'.arg.versioned, last'.arg.access_level)} :
            /\ child.st = "Ok"
            /\ child.val.info.name = last'.arg.name
            /\ child.val.info.parent_dir_key = get_key(mem[last'.arg.parent])

C10_UpdateLeavesChildReadable ==
    (Called("update_directory_listing_and_parent") /\ last'.st = "Err"
        /\ mem'[last'.arg[1]].info.parent_dir_key # NoKey
        /\ \E name \in DOMAIN sds :
            /\ name[2] = last'.arg[1]
            /\ sds'[name] # sds[name])
        => /\ Fetch(After, mem'[last'.arg[1]]).st = "Ok"
           /\ Fetch(After, mem'[last'.arg[1]]).val = mem'[last'.arg[1]]

\* C10: both operations, over every step.
C10_ChildSurvivesParentFailure ==
    [][C10_CreateLeavesChildReadable /\ C10_UpdateLeavesChildReadable]_vars

UniqueNames(directory) ==
    /\ \A j, k \in DOMAIN directory.sub_directories :
          j # k => directory.sub_directories[j].name # directory.sub_directories[k].name
    /\ \A j, k \in DOMAIN directory.files :
          j # k => get_name(directory.files[j]) # get_name(directory.files[k])

\* C11: in every persisted listing, after any sequence of helper calls, no
\* two sub-directory entries have the same directory name and no two files
\* have the same file name.
C11_NamesUniqueInListing ==
    \A i \in Held :
        Fetch(Now, mem[i]).st = "Ok" => UniqueNames(Fetch(Now, mem[i]).val)

\* C13: an update whose post the substrate rejects (a version conflict)
\* returns NfsError::FailedToUpdateDirectory.
C13_ConflictIsFailedToUpdateDirectory ==
    (last.op = "update" /\ last.failAt # 0 /\ last.log[last.failAt] = "post")
        => (last.st = "Err" /\ last.val = "FailedToUpdateDirectory")

\* C14: a helper call in which a substrate call fails returns
\* NfsError::ClientError, and the failed call is the last substrate call it
\* makes: nothing is retried, nothing follows.
C14_SubstrateFailureReturnsAtOnce ==
    last.failAt # 0
        => /\ last.st = "Err"
           /\ last.val = "ClientError"
           /\ Len(last.log) = last.failAt

C14_Witness ==
    /\ last.op = "update"
    /\ last.failAt = 1
    /\ last.st = "Err"

\* The errors that report a broken invariant of the model or a conflict.
InvariantErrors ==
    {"NameIsEmpty", "AlreadyExists", "MetadataIsEmpty",
     "DestinationAndSourceAreSame", "FileExistsInDestination"}

Writes(log) == {k \in DOMAIN log : log[k] \in {"put", "post"}}

\* C12: a public operation that fails with an invariant or conflict error
\* has made no put and no post; a create whose upsert into the parent is
\* refused has not stored the record of the new child.
C12_RefusalBeforeAnyWrite ==
    (last.st = "Err" /\ last.val \in InvariantErrors)
        => /\ Writes(last.log) = {}
           /\ last.op = "create" =>
                 \A tag_type \in Tags :
                     compute_name(tag_type, last.arg.id) \notin DOMAIN sds

NamesOf(directory) ==
    {directory.sub_directories[k].name : k \in DOMAIN directory.sub_directories}

\* C15, the entry exists: it is taken out of the caller's listing and the
\* parent is persisted, so that a fresh get of the parent shows no entry of
\* that name.
C15_DeleteRemovesEntry ==
    (Called("delete") /\ last'.failAt = 0) =>
        \A parent \in {mem[last'.arg.parent]} :
            last'.arg.name \in NamesOf(parent) =>
                /\ mem'[last'.arg.parent].sub_directories =
                       RemoveAt(parent.sub_directories,
                                get_sub_directory_index(parent, last'.arg.name))
                /\ Fetch(After, parent).st = "Ok"
                /\ last'.arg.name \notin NamesOf(Fetch(After, parent).val)

\* C15, no entry of that name: DirectoryNotFound, the caller's listing as it
\* was, and no substrate call.
C15_DeleteOfMissingEntry ==
    Called("delete") =>
        \A parent \in {mem[last'.arg.parent]} :
            last'.arg.name \notin NamesOf(parent) =>
                /\ last'.st = "Err"
                /\ last'.val = "DirectoryNotFound"
                /\ mem' = mem
                /\ last'.log = <<>>
                /\ sds' = sds
                /\ blobs' = blobs

\* C15: delete(parent, name) removes the entry named name and persists the
\* parent, or returns DirectoryNotFound and touches nothing.
C15_DirectoryDelete ==
    [][C15_DeleteRemovesEntry /\ C15_DeleteOfMissingEntry]_vars

\* The listing an entry of a parent stands for, as far as get needs it.
ListingOf(directory_info) ==
    [info |-> directory_info, sub_directories |-> <<>>, files |-> <<>>]

\* C16, one step: the records of listings other than the parent and the
\* parent's own parent are as they were, no record appears or disappears,
\* every blob is still there, and get of each sub-directory the parent
\* listed answers as it did before.
C16_DeleteStep ==
    Called("delete") =>
        \A parent \in {mem[last'.arg.parent]} :
            /\ DOMAIN sds' = DOMAIN sds
            /\ \A k \in DOMAIN sds :
                  k[2] \notin {get_key(parent)[1], parent.info.parent_dir_key[1]}
                      => sds'[k] = sds[k]
            /\ \A b \in DOMAIN blobs : b \in DOMAIN blobs' /\ blobs'[b] = blobs[b]
            /\ \A child \in Entries(parent) :
                  SameResult(Fetch(Now, ListingOf(child)),
                             Fetch(After, ListingOf(child)))

\* C16: delete writes only the parent's record (and, through the cascade,
\* that of the parent's parent); the record and the blobs of the deleted
\* child stay, and get(child.key, ..) still returns the child.
C16_DeleteLeavesChildStored == [][C16_DeleteStep]_vars

C16_Witness ==
    /\ last.op = "delete"
    /\ last.st = "Ok"
    /\ \E j \in Held :
          /\ mem[j].info.parent_dir_key = get_key(mem[last.arg.parent])
          /\ mem[j].info.name = last.arg.name
          /\ mem[j].info.name \notin NamesOf(mem[last.arg.parent])
          /\ Fetch(Now, mem[j]).st = "Ok"
          /\ Fetch(Now, mem[j]).val = mem[j]

FileNamesOf(directory) ==
    {get_name(directory.files[k]) : k \in DOMAIN directory.files}

\* The step makes no substrate call and leaves the store and the caller's
\* listings as they were.
NothingTouched ==
    /\ last'.log = <<>>
    /\ sds' = sds
    /\ blobs' = blobs
    /\ mem' = mem

\* C17, the file is in the listing: it is taken out of the caller's listing
\* and of the persisted one, find_file(name) is None in both.
C17_DeleteRemovesFile ==
    (Called("FileHelper::delete") /\ last'.failAt = 0) =>
        \A listing \in {mem[last'.arg.listing]} :
            last'.arg.name \in FileNamesOf(listing) =>
                /\ last'.st = "Ok"
                /\ ~find_file(mem'[last'.arg.listing], last'.arg.name).Found
                /\ Fetch(After, listing).st = "Ok"
                /\ ~find_file(Fetch(After, listing).val, last'.arg.name).Found

\* C17, the file is not (or no longer) in the listing: FileNotFound, no
\* substrate call, the listing as it was.
C17_DeleteOfMissingFile ==
    Called("FileHelper::delete") =>
        \A listing \in {mem[last'.arg.listing]} :
            last'.arg.name \notin FileNamesOf(listing) =>
                /\ last'.st = "Err"
                /\ last'.val = "FileNotFound"
                /\ NothingTouched

\* C17: FileHelper::delete removes the named file from the in-memory and
\* the persisted listing; a delete of a name that is not there returns
\* FileNotFound without a substrate call.
C17_FileDelete == [][C17_DeleteRemovesFile /\ C17_DeleteOfMissingFile]_vars

\* A second delete of "f": the file that the directory held at first is
\* gone from the caller's listing and from the store, and delete said so.
C17_Witness ==
    /\ last.op = "FileHelper::delete"
    /\ last.arg.name = "f"
    /\ last.st = "Err"
    /\ last.val = "FileNotFound"
    /\ "f" \notin FileNamesOf(mem[last.arg.listing])
    /\ Fetch(Now, mem[last.arg.listing]).st = "Ok"
    /\ "f" \notin FileNamesOf(Fetch(Now, mem[last.arg.listing]).val)

C18_CreateStep ==
    Called("FileHelper::create") =>
        \A listing \in {mem[last'.arg.listing]} :
            /\ NothingTouched
            /\ IF last'.arg.name \in FileNamesOf(listing)
               THEN last'.st = "Err" /\ last'.val = "AlreadyExists"
               ELSE /\ last'.st = "Ok"
                    /\ last'.val.mode = "Overwrite"
                    /\ last'.val.directory_listing = listing
                    /\ get_name(last'.val.file) = last'.arg.name
                    /\ last'.val.file.datamap = NoDataMap
                    /\ last'.val.file.metadata.size = 0
                    /\ Fetch(After, listing).st = "Ok" =>
                          last'.val.file \notin FilesOf(<<Fetch(After, listing).val>>)

\* C18: FileHelper::create returns AlreadyExists when the listing has a file
\* of that name, else a Writer in Overwrite mode over a fresh File with
\* DataMap::None; either way without a substrate call, so that the file is
\* not in the persisted listing before close().
C18_FileCreate == [][C18_CreateStep]_vars

C18_Witness ==
    /\ last.op = "FileHelper::create"
    /\ last.st = "Ok"
    /\ last.val.mode = "Overwrite"
    /\ last.arg.name \notin FileNamesOf(mem[last.arg.listing])

C19_Step ==
    \A op \in {"FileHelper::update", "FileHelper::read",
                "FileHelper::update_metadata"} :
        Called(op) =>
            \A listing \in {mem[last'.arg.listing]} :
                IF get_name(last'.arg.file) \notin FileNamesOf(listing)
                THEN /\ last'.st = "Err"
                     /\ last'.val = "FileNotFound"
                     /\ NothingTouched
                ELSE /\ op = "FileHelper::update" =>
                          /\ last'.st = "Ok"
                          /\ last'.val.writer
                          /\ last'.val.mode = last'.arg.mode
                          /\ last'.val.file = last'.arg.file
                          /\ last'.val.directory_listing = listing
                     /\ op = "FileHelper::read" =>
                          /\ last'.st = "Ok"
                          /\ last'.val.reader
                          /\ last'.val.file = last'.arg.file

\* C19: update, read and update_metadata return FileNotFound, without a
\* substrate call and with the listing unchanged, when the listing has no
\* file of the given file's name; otherwise update returns a Writer in the
\* requested mode and read a Reader bound to the given file.
C19_FileNotFoundOrHandle == [][C19_Step]_vars

C19_Witness ==
    /\ last.op = "FileHelper::update"
    /\ last.st = "Ok"
    /\ last.val.mode = "Modify"

\* The file as update_metadata may change it: the user metadata given, any
\* modified time.
WithMetadata(file, user_metadata, changed) ==
    [file EXCEPT !.metadata.user_metadata = user_metadata,
                 !.metadata.modified_time = changed.metadata.modified_time]

C20_Step ==
    (Called("FileHelper::update_metadata") /\ last'.st = "Ok") =>
        \A before \in {Fetch(Now, mem[last'.arg.listing])} :
            before.st = "Ok" =>
                /\ last'.val = Fetch(After, mem[last'.arg.listing]).val
                /\ mem' = mem
                /\ last'.val.sub_directories = before.val.sub_directories
                /\ last'.val.info =
                      [before.val.info EXCEPT
                          !.modified_time = last'.val.info.modified_time]
                /\ DOMAIN last'.val.files = DOMAIN before.val.files
                /\ \A k \in DOMAIN before.val.files :
                      last'.val.files[k] =
                          IF get_name(before.val.files[k]) = get_name(last'.arg.file)
                          THEN WithMetadata(before.val.files[k],
                                            last'.arg.user_metadata,
                                            last'.val.files[k])
                          ELSE before.val.files[k]

\* C20: a successful update_metadata(file, m, listing) returns the persisted
\* listing, which differs from the one persisted before only in the user
\* metadata of that file (now m) and in modified times: the file's data map
\* and size and all other entries are as they were, also when the file
\* given is an older copy of the one in the listing.
C20_MetadataUpdateIsolation == [][C20_Step]_vars

\* The listings of the version chain of a versioned listing, oldest first.
History(directory) ==
    [k \in DOMAIN get_versions(Now, get_key(directory)).val |->
        get_by_version(Now, get_key(directory), directory.info.access_level,
                       get_versions(Now, get_key(directory)).val[k]).val]

\* The positions of a history at which a file of that name is present.
Present(history, name) ==
    {k \in DOMAIN history : find_file(history[k], name).Found}

\* The positions whose file differs in modified time from the file at the
\* nearest earlier position that holds it, or that are the first to hold it.
Emitted(history, name) ==
    {k \in Present(history, name) :
        \A j \in Present(history, name) :
            (j < k /\ \A i \in Present(history, name) : ~(j < i /\ i < k))
                => find_file(history[j], name).file.metadata.modified_time
                     # find_file(history[k], name).file.metadata.modified_time}

\* The elements of a set of numbers in increasing order.
RECURSIVE Ascending(_)
Ascending(S) ==
    IF S = {} THEN <<>>
    ELSE LET m == CHOOSE x \in S : \A y \in S : x <= y
         IN  <<m>> \o Ascending(S \ {m})

\* C21: FileHelper::get_versions on a versioned listing returns, oldest
\* first, the file of each chain position that holds the file with a
\* modified time other than that of the snapshot returned before it; no two
\* consecutive snapshots have the same modified time.
C21_FileVersions ==
    (last.op = "FileHelper::get_versions" /\ last.st = "Ok") =>
        \A history \in {History(mem[last.arg.listing])} :
            /\ last.val =
                  [n \in DOMAIN Ascending(Emitted(history, get_name(last.arg.file))) |->
                      find_file(history[Ascending(Emitted(history,
                                    get_name(last.arg.file)))[n]],
                                get_name(last.arg.file)).file]
            /\ \A n \in 1 .. (Len(last.val) - 1) :
                  last.val[n].metadata.modified_time
                      # last.val[n + 1].metadata.modified_time

\* The file written once and overwritten once: two snapshots.
C21_Witness ==
    /\ last.op = "FileHelper::get_versions"
    /\ last.st = "Ok"
    /\ Len(History(mem[last.arg.listing])) = 3
    /\ Present(History(mem[last.arg.listing]), get_name(last.arg.file)) = {2, 3}
    /\ Len(last.val) = 2
    /\ ContentOf(last.val[1].datamap) # ContentOf(last.val[2].datamap)

C23_ParentlessIffRoot ==
    /\ \A i \in Held :
          (mem[i].info.parent_dir_key = NoKey)
              <=> (get_key(mem[i])[1] \in {session.user_root, session.config_root})
    /\ (last.op = "create" /\ last.st = "Ok") =>
          IF last.arg.parent = 0
          THEN get_key(last.val)[1] \in {session.user_root, session.config_root}
          ELSE last.val.info.parent_dir_key = get_key(mem[last.arg.parent])

\* The name of the record of an unversioned listing.
UnversionedRecord(directory) ==
    compute_name(UNVERSIONED_DIRECTORY_LISTING_TAG, get_key(directory)[1])

\* The call has made a post that the substrate accepted.
AcceptedPost(l) == \E k \in DOMAIN l.log : l.log[k] = "post" /\ l.failAt # k

\* 1 for a condition that holds, 0 for one that does not.
Count(condition) == IF condition THEN 1 ELSE 0

\* C27: a record has version counter 0 when it is created; a step raises the
\* counter of the record of an unversioned listing by one or leaves it, and
\* raises it only by a post the substrate accepted; an update of an
\* unversioned listing raises the counter of its record by exactly one when
\* its post is accepted, which every successful update's is, and by nothing
\* otherwise.
C27_Step ==
    /\ \A n \in DOMAIN sds' \ DOMAIN sds : sds'[n].version = 0
    /\ \A n \in DOMAIN sds :
          sds[n].payload.kind = "data" =>
              /\ n \in DOMAIN sds'
              /\ sds'[n].version \in {sds[n].version, sds[n].version + 1}
              /\ sds'[n] # sds[n] => sds'[n].version = sds[n].version + 1
              /\ sds'[n].version # sds[n].version => AcceptedPost(last')
    /\ Called("update") =>
          \A directory \in {mem'[last'.arg[1]]} :
              (~directory.info.versioned
                  /\ UnversionedRecord(directory) \in DOMAIN sds) =>
                  /\ last'.st = "Ok" => AcceptedPost(last')
                  /\ sds'[UnversionedRecord(directory)].version
                        = sds[UnversionedRecord(directory)].version
                            + Count(AcceptedPost(last'))

C27_CounterCountsAcceptedPosts == [][C27_Step]_vars

\* Two successful updates of an unversioned listing: the counter is 2.
C27_Witness ==
    /\ last.op = "update"
    /\ last.st = "Ok"
    /\ ~last.val.info.versioned
    /\ sds[UnversionedRecord(last.val)].version = 2

\* C27 as stated: the counter of the record of an unversioned listing moves
\* with the successful updates alone, by one for an update that returns Ok
\* and by nothing for one that returns an error.
C27_UpdateStep ==
    Called("update") =>
        \A directory \in {mem'[last'.arg[1]]} :
            (~directory.info.versioned
                /\ UnversionedRecord(directory) \in DOMAIN sds) =>
                sds'[UnversionedRecord(directory)].version
                    = sds[UnversionedRecord(directory)].version
                        + Count(last'.st = "Ok")

C27_CounterCountsSuccessfulUpdates == [][C27_UpdateStep]_vars

\* The records that hold a version chain.
VersionedRecords == {n \in DOMAIN sds : sds[n].payload.kind = "versions"}

\* C29: every stored record of a versioned listing has a chain that is not
\* empty and names stored snapshots only; a client that can make calls
\* fetches the latest snapshot, and its get of the record as versioned
\* returns a listing; no call ends in the panic of versions.last().unwrap().
C29_ChainsNameStoredSnapshots ==
    /\ \A n \in VersionedRecords :
          /\ sds[n].payload.chain # <<>>
          /\ \A k \in DOMAIN sds[n].payload.chain :
                sds[n].payload.chain[k] \in DOMAIN blobs
          /\ pc = "ready" =>
                /\ get_immutable_data(Now, Last(sds[n].payload.chain)).st = "Ok"
                /\ \E access_level \in AccessLevel :
                      get(Now, <<sds[n].id, sds[n].tag>>, TRUE, access_level).st = "Ok"
    /\ last.st = "Panicked" => last.val # "unwrap"

\* A versioned listing after create and update: two snapshots in its chain,
\* and get has returned the latest.
C29_Witness ==
    /\ last.op = "get"
    /\ last.st = "Ok"
    /\ last.val.info.versioned
    /\ \E n \in VersionedRecords :
          /\ sds[n].id = get_key(last.val)[1]
          /\ Len(sds[n].payload.chain) = 2

ThreadCalled(t, op) == th'[t].calls > th[t].calls /\ th'[t].last.op = op

Range(seq) == {seq[k] : k \in DOMAIN seq}

\* C24: when the last call of each of the two threads is a successful update
\* of the same versioned listing, the stored chain of the listing holds the
\* snapshot that each update wrote and every version of the chains that the
\* updates started from.
C24_NoUpdateLost ==
    \A i \in DOMAIN th["main"].mem :
        (\A t \in Threads :
            /\ th[t].last.op = "update"
            /\ th[t].last.st = "Ok"
            /\ th[t].last.arg.listing = i
            /\ th[t].mem[i].info.versioned)
        => \A t \in Threads :
              Range(th[t].last.arg.posted.payload.chain)
                  \subseteq Range(sds[compute_name(VERSIONED_DIRECTORY_LISTING_TAG,
                                                   i)].payload.chain)

\* C25: a thread that enters create or get from the arm of a match, or
\* starts any call of its own, does not hold the client mutex.
C25_Step ==
    \A t \in Threads :
        (th[t].pc \in {"ready", "posting", "matching"} /\ th'[t] # th[t])
            => (th[t].pc = "matching" => th'[t].pc = "matching") \/ mutex # t

C25_NoHelperEnteredUnderGuard == [][C25_Step]_vars

\* The stored records of listings of that name.
StoredAs(name) ==
    {n \in DOMAIN sds :
        /\ sds[n].payload.kind = "data"
        /\ sds[n].payload.inner.body.info.name = name}

\* C26, in every state: at most one user root and one configuration root
\* are stored, and a root call that has returned Ok has returned the listing
\* of the session's root id (the configuration call: a sub-directory of it).
C26_OneRoot ==
    /\ Cardinality(StoredAs(ROOT_DIRECTORY_NAME)) <= 1
    /\ Cardinality(StoredAs(CONFIGURATION_DIRECTORY_NAME)) <= 1
    /\ \A t \in Threads :
          th[t].last.st = "Ok" =>
              /\ th[t].last.op = "get_user_root_directory_listing" =>
                    get_key(th[t].last.val)[1] = session.user_root
              /\ th[t].last.op = "get_configuration_directory_listing" =>
                    th[t].last.val.info.parent_dir_key[1] = session.config_root

\* C26, in every step: a root id that is set stays as it is.
C26_Step ==
    \A slot \in RootSlots : session[slot] # NoId => session'[slot] = session[slot]

C28_Step ==
    \A t \in Threads, op \in {"create", "delete"} :
        (ThreadCalled(t, op) /\ th'[t].last.st = "Ok") =>
            \A before \in {Fetch(Now, th[t].mem[th'[t].last.arg.parent])},
               after \in {Fetch(After, th[t].mem[th'[t].last.arg.parent])} :
                before.st = "Ok" =>
                    /\ after.st = "Ok"
                    /\ \A entry \in Entries(before.val) :
                          entry.name # th'[t].last.arg.name =>
                              \E kept \in Entries(after.val) : kept.key = entry.key
                    /\ Range(before.val.files) \subseteq Range(after.val.files)

C28_PersistedEntriesKept == [][C28_Step]_vars

============================================================================
